---- MODULE Spec2Model ----
(***************************************************************************)
(* Model of the live decision-and-execution engine of src/model/mt5.py:    *)
(*   - LiveTradingStrategy (next, _open_long, _close_all, _send_order),    *)
(*     specification Spec;                                                 *)
(*   - MT5LiveDataFeed (history preload, polling thread, _load),           *)
(*     specification FeedSpec.                                             *)
(*                                                                         *)
(* Numbers.  Volumes are integers counted in 1/LotScale lot, prices in     *)
(* 1/PriceScale.  A quotient the code keeps as a float is kept exact, as   *)
(* a reduced fraction [n, d]; binary floating-point error is not modelled, *)
(* except that round(x, 2) on an exact decimal tie may go either way.      *)
(***************************************************************************)
EXTENDS Integers, Sequences, FiniteSets, TLC

VARIABLES
    p,                  \* strategy params: [max_positions, fast, atr_period]
    position_count,     \* LiveTradingStrategy.position_count
    last_signal_minute, \* LiveTradingStrategy.last_signal_minute
    dataTime,           \* data.datetime[0] of the bar being processed (seconds)
    bars,               \* len(self.data): bars delivered so far (capped)
    running,            \* FALSE once an exception has left next()
    brokerPositions,    \* what mt5.positions_get would report
    orders,             \* requests handed to mt5.order_send in the latest cycle
    cycle,              \* what the latest call of next() saw and did
    acted,              \* acting cycles in the bucket of dataTime
    feed,               \* feed params: [tick_mode, history]
    brokerTime,         \* time of the broker's latest tick (seconds)
    data_queue,         \* MT5LiveDataFeed._data_queue, as the items' timestamps
    last_tick_time,     \* MT5LiveDataFeed._last_tick_time
    last_bar_time,      \* MT5LiveDataFeed._last_bar_time
    stop_event,         \* MT5LiveDataFeed._stop_event
    data_ready,         \* MT5LiveDataFeed._data_ready
    thread,             \* position of the polling thread
    loader,             \* position of the consumer inside _load
    placed,             \* every timestamp put into the buffer so far, in order
    evicted,            \* an append to a full buffer has happened
    caller,             \* position of the thread that calls start() / stop()
    start_tick,         \* flips at every call of start()
    delivered,          \* what _load has returned, as positions in placed
    dropped,            \* positions in placed of what a full buffer dropped
    waits               \* waits on _data_ready in the running call of _load

svars == <<p, position_count, last_signal_minute, dataTime, bars, running,
           brokerPositions, orders, cycle, acted>>

lifecycle == <<caller, start_tick>>

deliveries == <<delivered, dropped, waits>>

fvars == <<feed, brokerTime, data_queue, last_tick_time, last_bar_time,
           stop_event, data_ready, thread, loader, placed, evicted,
           lifecycle, deliveries>>

vars == <<svars, fvars>>

(***************************************************************************)
(* Bounds                                                                  *)
(***************************************************************************)
MaxTicks == 3               \* timestamps: 0, TimeStep, ..., MaxTicks*TimeStep
TimeStep == 30              \* seconds between two modelled timestamps
MaxBrokerPositions == 2     \* positions the broker holds at most
MaxPositionsParam == 2      \* max_positions is drawn from 1..MaxPositionsParam
slow == 2                   \* self.p.slow, scaled down
MaxPeriod == 3              \* the largest fast and atr_period, above slow
QueueCap == 2               \* maxlen of _data_queue, scaled down
MaxHist == 3                \* bars the history preload returns at most
MaxPolls == 2               \* ticks the broker receives while the feed runs

(***************************************************************************)
(* Program constants and encodings                                         *)
(***************************************************************************)
SecondsPerMinute == 60
NoMinute == -1              \* last_signal_minute = None

ORDER_TYPE_BUY == "BUY"
ORDER_TYPE_SELL == "SELL"
POSITION_TYPE_BUY == "BUY"
POSITION_TYPE_SELL == "SELL"

Times == {k * TimeStep : k \in 0..MaxTicks}

\* now.replace(second=0, microsecond=0)
Minute(t) == t - (t % SecondsPerMinute)


(***************************************************************************)
(* Strategy parameters (params dict of LiveTradingStrategy)                *)
(***************************************************************************)
risk_pct_num == 2           \* risk_pct = 0.02 = risk_pct_num / risk_pct_den
risk_pct_den == 100
stop_atr_mult == 2
take_profit_mult == 3
StopsBuffer == 5            \* the "+5" added to trade_stops_level
LotScale == 1000            \* volume unit: 1/1000 lot
PriceScale == 10            \* price unit: 1/10
RoundUnit == 10             \* round(lot, 2): 0.01 lot, in volume units

(***************************************************************************)
(* Exact arithmetic on non-negative fractions                              *)
(***************************************************************************)
RECURSIVE GCD(_, _)
GCD(a, b) == IF b = 0 THEN a ELSE GCD(b, a % b)

Frac(n, d) == LET g == GCD(n, d) IN [n |-> n \div g, d |-> d \div g]

FracLeq(a, b) == a.n * b.d <= b.n * a.d

\* Python min(a, b): b only when b < a
FracMin(a, b) == IF FracLeq(a, b) THEN a ELSE b

\* Python max(a, b): b only when b > a
FracMax(a, b) == IF FracLeq(b, a) THEN a ELSE b

Max(a, b) == IF b > a THEN b ELSE a

Min(a, b) == IF b < a THEN b ELSE a

(***************************************************************************)
(* Position sizing of _open_long                                           *)
(***************************************************************************)
\* stop_dist = self.atr[0] * self.p.stop_atr_mult        (price units)
StopDist(atr) == atr * stop_atr_mult

\* lot = risk_amt / (stop_dist * sym_info.trade_contract_size)
RawLot(balance, atr, sym) ==
    Frac(balance * risk_pct_num * PriceScale * LotScale,
         risk_pct_den * StopDist(atr) * sym.trade_contract_size)

\* if margin_per_lot > 0: lot = min(lot, free / margin_per_lot)
MarginCap(lot, margin_per_lot, free) ==
    IF margin_per_lot > 0
    THEN FracMin(lot, Frac(free * LotScale, margin_per_lot))
    ELSE lot

\* lot = max(vmin, min(lot, vmax))
Clamp(lot, sym) ==
    FracMax(Frac(sym.volume_min, 1), FracMin(lot, Frac(sym.volume_max, 1)))

\* lot = math.floor(lot/step) * step
FloorStep(lot, sym) == (lot.n \div (lot.d * sym.volume_step)) * sym.volume_step

\* lot = round(lot, 2): the possible results; an exact tie is decided by the
\* binary representation of the float, so both neighbours are possible
Round2(lot) ==
    LET r == lot % RoundUnit
        lo == lot - r
    IN  IF r * 2 < RoundUnit THEN {lo}
        ELSE IF r * 2 > RoundUnit THEN {lo + RoundUnit}
        ELSE {lo, lo + RoundUnit}

\* the volumes _open_long may hand to _send_order
Lots(balance, atr, sym, margin_per_lot, free) ==
    Round2(FloorStep(Clamp(MarginCap(RawLot(balance, atr, sym),
                                     margin_per_lot, free), sym), sym))

\* sl_pts = max(int(stop_dist/sym_info.point), sym_info.trade_stops_level+5)
SlPts(atr, sym) ==
    Max(StopDist(atr) \div sym.point, sym.trade_stops_level + StopsBuffer)

\* tp_pts = sl_pts * self.p.take_profit_mult
TpPts(sl_pts) == sl_pts * take_profit_mult


(***************************************************************************)
(* What the broker and the indicators may answer in one decision cycle     *)
(***************************************************************************)
Crossovers == {-1, 0, 1}

\* self.atr[0]: fin = FALSE stands for nan / inf, for which "<= 0" is False
\* as it is for its v
Atrs == {[fin |-> FALSE, v |-> 7], [fin |-> TRUE, v |-> 0],
         [fin |-> TRUE, v |-> 7], [fin |-> TRUE, v |-> 40]}

Balances == {10000}

\* mt5.order_calc_margin(...) for 1.0 lot
Margins == {0, 200}

\* mt5.account_info().margin_free
Frees == {1}

\* mt5.symbol_info(...): the usual 0.01-lot instrument, and one whose
\* volume_min and volume_max are no multiples of its volume_step of 0.025
SymInfos ==
    {[volume_step |-> 10, volume_min |-> 10, volume_max |-> 10000,
      trade_contract_size |-> 100, point |-> 1, trade_stops_level |-> 0],
     [volume_step |-> 25, volume_min |-> 15, volume_max |-> 125,
      trade_contract_size |-> 100, point |-> 3, trade_stops_level |-> 20]}

NoSym == [volume_step |-> 0, volume_min |-> 0, volume_max |-> 0,
          trade_contract_size |-> 0, point |-> 0, trade_stops_level |-> 0]

\* the broker call of _open_long that fails, if any
OpenFails == {"ok", "no_sym_info", "no_tick", "no_margin", "no_account"}

\* how one call of _send_order ends:
\*   no_tick    mt5.symbol_info_tick returns None: RuntimeError, caught before
\*              the request is built, None is returned
\*   no_info    mt5.symbol_info returns None: AttributeError on info.digits,
\*              caught before the request is built, None is returned
\*   no_result  mt5.order_send raises (caught) or returns None
\*   rejected   a result whose retcode is not TRADE_RETCODE_DONE
\*   done       a result whose retcode is TRADE_RETCODE_DONE
SendOutcomes == {"no_tick", "no_info", "no_result", "rejected", "done"}

\* mt5.order_send was called
Submitted(out) == out \in {"no_result", "rejected", "done"}

\* _send_order returned None
ReturnsNone(out) == out \in {"no_tick", "no_info", "no_result"}

PositionVolumes == {30}

\* positions on the symbol that this process did not open
Positions == [type : {POSITION_TYPE_SELL}, volume : PositionVolumes]

NoCycle == [kind |-> "none", minute |-> NoMinute, crossover |-> 0,
            count_before |-> 0, atr |-> [fin |-> FALSE, v |-> 0],
            sym |-> NoSym, margin |-> 0, free |-> 0, fail |-> "ok",
            reported |-> <<>>, outs |-> <<>>, left |-> 0,
            raised |-> FALSE]

(***************************************************************************)
(* _send_order: the request handed to mt5.order_send (prices left out:     *)
(* sl and tp are kept as the point distances they are computed from)       *)
(***************************************************************************)
Request(lot, typ, sl_points, tp_points) ==
    [type |-> typ, volume |-> lot, sl |-> sl_points, tp |-> tp_points]

_send_order(log, lot, typ, sl_points, tp_points, out) ==
    IF Submitted(out)
    THEN Append(log, Request(lot, typ, sl_points, tp_points))
    ELSE log

(***************************************************************************)
(* _close_all: the loop over the reported positions.  The state of the     *)
(* loop is [count, orders, left, raised]; `left` is what the broker still  *)
(* holds.  A None result makes res.retcode raise AttributeError, which     *)
(* nothing in _close_all catches.                                          *)
(***************************************************************************)
CloseDecrementNoFloor(count) == count - 1

\* self.position_count = max(0, self.position_count-1)
CloseDecrement(count) == Max(0, count - 1)

CloseType(pos) ==
    IF pos.type = POSITION_TYPE_BUY THEN ORDER_TYPE_SELL ELSE ORDER_TYPE_BUY

RECURSIVE CloseLoop(_, _, _, _)
CloseLoop(pos, outs, i, st) ==
    IF i > Len(pos) \/ st.raised THEN st
    ELSE LET sent == _send_order(st.orders, pos[i].volume, CloseType(pos[i]),
                                 0, 0, outs[i])
         IN  IF ReturnsNone(outs[i])
             THEN [st EXCEPT !.orders = sent, !.raised = TRUE,
                             !.left = st.left \o SubSeq(pos, i, Len(pos))]
             ELSE IF outs[i] = "done"
             THEN CloseLoop(pos, outs, i + 1,
                            [st EXCEPT !.orders = sent,
                                       !.count = CloseDecrement(st.count)])
             ELSE CloseLoop(pos, outs, i + 1,
                            [st EXCEPT !.orders = sent,
                                       !.left = Append(st.left, pos[i])])

\* the calls of _send_order that _close_all gets to make: up to and
\* including the first one that returns None
Attempted(outs) ==
    LET none == {i \in 1..Len(outs) : ReturnsNone(outs[i])}
    IN  IF none = {} THEN outs
        ELSE SubSeq(outs, 1, CHOOSE i \in none : \A j \in none : i <= j)

_close_all(count, pos, outs) ==
    CloseLoop(pos, outs, 1,
              [count |-> count, orders |-> <<>>, left |-> <<>>,
               raised |-> FALSE])


(***************************************************************************)
(* MT5LiveDataFeed                                                         *)
(***************************************************************************)
\* the broker's clock when the feed is constructed
InitTime == MaxHist * SecondsPerMinute

LastTime == InitTime + MaxPolls * TimeStep

DequeAppendUnbounded(q, x) == Append(q, x)

\* deque(maxlen=...).append: a full deque drops its oldest item
DequeAppend(q, x) ==
    IF Len(q) >= QueueCap THEN Append(Tail(q), x) ELSE Append(q, x)

\* mt5.copy_rates_range(...): the n latest M1 bars up to now, oldest first
Rates(n, now) ==
    [i \in 1..n |-> Minute(now) - (n - i) * SecondsPerMinute]

\* _init_historical_data: for rate in rates: self._data_queue.append(...)
RECURSIVE Preload(_, _, _)
Preload(q, rates, i) ==
    IF i > Len(rates) THEN q
    ELSE Preload(DequeAppend(q, rates[i]), rates, i + 1)

\* the feed after __init__; history = 0 stands for historical_days <= 0 and
\* for a preload that returns nothing
FeedConstructed(cfg) ==
    /\ feed = cfg
    /\ brokerTime = InitTime
    /\ data_queue = Preload(<<>>, Rates(cfg.history, InitTime), 1)
    /\ last_tick_time = 0
    /\ last_bar_time = 0
    /\ stop_event = FALSE
    /\ data_ready = FALSE
    /\ thread = "none"
    /\ loader = "idle"
    /\ placed = Rates(cfg.history, InitTime)
    /\ evicted = (cfg.history > QueueCap)
    /\ caller = "idle"
    /\ start_tick = FALSE
    /\ delivered = <<>>
    /\ dropped = 1..(cfg.history - QueueCap)
    /\ waits = 0

ThreadAlive == thread \notin {"none", "exited", "died"}

\* start(): if not self._thread or not self._thread.is_alive(): clear the
\* flag and start a new thread; otherwise nothing
Start ==
    /\ caller = "idle"
    /\ IF ThreadAlive
       THEN UNCHANGED <<stop_event, thread>>
       ELSE stop_event' = FALSE /\ thread' = "loop"
    /\ start_tick' = ~start_tick
    /\ UNCHANGED <<feed, brokerTime, data_queue, last_tick_time,
                   last_bar_time, data_ready, loader, placed,
                   evicted, caller, deliveries>>
    /\ UNCHANGED svars

\* stop(): if self._thread and self._thread.is_alive(): set the flag and
\* go on to self._thread.join(timeout=5); otherwise nothing
Stop ==
    /\ caller = "idle"
    /\ IF ThreadAlive
       THEN stop_event' = TRUE /\ caller' = "join"
       ELSE UNCHANGED <<stop_event, caller>>
    /\ UNCHANGED <<feed, brokerTime, data_queue, last_tick_time,
                   last_bar_time, data_ready, thread, loader,
                   placed, evicted, start_tick, deliveries>>
    /\ UNCHANGED svars

\* join(timeout=5) returns: the thread has ended, or the five seconds are
\* over (a sleep of update_interval or a broker call can outlast them)
StopReturn ==
    /\ caller = "join"
    /\ caller' = "idle"
    /\ UNCHANGED <<feed, brokerTime, data_queue, last_tick_time,
                   last_bar_time, stop_event, data_ready, thread, loader,
                   placed, evicted, start_tick, deliveries>>
    /\ UNCHANGED svars

\* _data_thread: the loop test, had it not looked at the flag
ThreadLoopIgnoresFlag ==
    /\ thread = "loop"
    /\ thread' = "fetch"
    /\ UNCHANGED <<feed, brokerTime, data_queue, last_tick_time,
                   last_bar_time, stop_event, data_ready, loader,
                   placed, evicted>>
    /\ UNCHANGED <<lifecycle, deliveries>>
    /\ UNCHANGED svars

\* _data_thread: while not self._stop_event.is_set()
ThreadLoop ==
    /\ thread = "loop"
    /\ thread' = IF stop_event THEN "exited" ELSE "fetch"
    /\ UNCHANGED <<feed, brokerTime, data_queue, last_tick_time,
                   last_bar_time, stop_event, data_ready, loader,
                   placed, evicted>>
    /\ UNCHANGED <<lifecycle, deliveries>>
    /\ UNCHANGED svars

\* mt5.symbol_info_tick(...): the latest tick, or None (0)
TickAnswers == {0, brokerTime}

\* the buffer holds the latest items put into it: the position in placed of
\* its oldest item
OldestIndex == Len(placed) - Len(data_queue) + 1

\* an append to a full buffer drops the oldest item
DroppedAfterAppend ==
    IF Len(data_queue) >= QueueCap THEN dropped \cup {OldestIndex}
    ELSE dropped

\* _fetch_tick_data returns early: no tick, or a tick that is not newer
FetchTickMiss ==
    \E tick \in TickAnswers :
        /\ thread = "fetch"
        /\ feed.tick_mode
        /\ tick = 0 \/ tick <= last_tick_time
        /\ thread' = "sleep"
        /\ UNCHANGED <<feed, brokerTime, data_queue, last_tick_time,
                       last_bar_time, stop_event, data_ready, loader,
                       placed, evicted>>
        /\ UNCHANGED <<lifecycle, deliveries>>
        /\ UNCHANGED svars

\* _fetch_tick_data up to and including self._data_queue.append(...)
FetchTickNew ==
    \E tick \in TickAnswers :
        /\ thread = "fetch"
        /\ feed.tick_mode
        /\ ~(tick = 0 \/ tick <= last_tick_time)
        /\ last_tick_time' = tick
        /\ data_queue' = DequeAppend(data_queue, tick)
        /\ placed' = Append(placed, tick)
        /\ evicted' = (evicted \/ Len(data_queue) >= QueueCap)
        /\ dropped' = DroppedAfterAppend
        /\ thread' = "set"
        /\ UNCHANGED <<feed, brokerTime, last_bar_time, stop_event,
                       data_ready, loader>>
        /\ UNCHANGED <<lifecycle, delivered, waits>>
        /\ UNCHANGED svars

\* mt5.copy_rates_from_pos(symbol, timeframe, 0, 2): None on an error, else
\* a numpy array of the latest bars, two of them unless the symbol has one
BarAnswers == {"none", "one", "two"}

\* "if not rates": a numpy array of more than one element has no truth
\* value, the test raises ValueError
TruthRaises(rates) == rates = "two"

\* _fetch_bar_data returns early: no rates, or a latest bar that is not newer
FetchBarMiss ==
    \E rates \in BarAnswers :
        /\ thread = "fetch"
        /\ ~feed.tick_mode
        /\ ~TruthRaises(rates)
        /\ rates = "none" \/ Minute(brokerTime) <= last_bar_time
        /\ thread' = "sleep"
        /\ UNCHANGED <<feed, brokerTime, data_queue, last_tick_time,
                       last_bar_time, stop_event, data_ready, loader,
                       placed, evicted>>
        /\ UNCHANGED <<lifecycle, deliveries>>
        /\ UNCHANGED svars

\* _fetch_bar_data raises; nothing in _data_thread catches it
FetchBarRaise ==
    \E rates \in BarAnswers :
        /\ thread = "fetch"
        /\ ~feed.tick_mode
        /\ TruthRaises(rates)
        /\ thread' = "died"
        /\ UNCHANGED <<feed, brokerTime, data_queue, last_tick_time,
                       last_bar_time, stop_event, data_ready, loader,
                       placed, evicted>>
        /\ UNCHANGED <<lifecycle, deliveries>>
        /\ UNCHANGED svars

\* _fetch_bar_data up to and including self._data_queue.append(...)
FetchBarNew ==
    \E rates \in BarAnswers :
        LET latest == Minute(brokerTime)
        IN  /\ thread = "fetch"
            /\ ~feed.tick_mode
            /\ ~TruthRaises(rates)
            /\ ~(rates = "none" \/ latest <= last_bar_time)
            /\ last_bar_time' = latest
            /\ data_queue' = DequeAppend(data_queue, latest)
            /\ placed' = Append(placed, latest)
            /\ evicted' = (evicted \/ Len(data_queue) >= QueueCap)
            /\ dropped' = DroppedAfterAppend
            /\ thread' = "set"
            /\ UNCHANGED <<feed, brokerTime, last_tick_time, stop_event,
                           data_ready, loader>>
            /\ UNCHANGED <<lifecycle, delivered, waits>>
            /\ UNCHANGED svars

\* self._data_ready.set()
ThreadSetReady ==
    /\ thread = "set"
    /\ data_ready' = TRUE
    /\ thread' = "sleep"
    /\ UNCHANGED <<feed, brokerTime, data_queue, last_tick_time,
                   last_bar_time, stop_event, loader, placed,
                   evicted>>
    /\ UNCHANGED <<lifecycle, deliveries>>
    /\ UNCHANGED svars

\* time.sleep(self.p.update_interval)
ThreadSleep ==
    /\ thread = "sleep"
    /\ thread' = "loop"
    /\ UNCHANGED <<feed, brokerTime, data_queue, last_tick_time,
                   last_bar_time, stop_event, data_ready, loader,
                   placed, evicted>>
    /\ UNCHANGED <<lifecycle, deliveries>>
    /\ UNCHANGED svars

\* _load, had it taken the newest item (pop) instead of the oldest
LoadPopNewest ==
    /\ loader \in {"idle", "check"}
    /\ data_queue # <<>>
    /\ data_queue' = SubSeq(data_queue, 1, Len(data_queue) - 1)
    /\ delivered' = Append(delivered, Len(placed))
    /\ loader' = "idle"
    /\ waits' = 0
    /\ UNCHANGED <<feed, brokerTime, last_tick_time, last_bar_time,
                   stop_event, data_ready, thread, placed, evicted>>
    /\ UNCHANGED <<lifecycle, dropped>>
    /\ UNCHANGED svars

\* _load: if self._data_queue: popleft, return True
LoadPop ==
    /\ loader \in {"idle", "check"}
    /\ data_queue # <<>>
    /\ data_queue' = Tail(data_queue)
    /\ delivered' = Append(delivered, OldestIndex)
    /\ loader' = "idle"
    /\ waits' = 0
    /\ UNCHANGED <<feed, brokerTime, last_tick_time, last_bar_time,
                   stop_event, data_ready, thread, placed, evicted>>
    /\ UNCHANGED <<lifecycle, dropped>>
    /\ UNCHANGED svars

\* _load: the buffer is empty, go on to self._data_ready.wait(timeout=1.0)
LoadEmpty ==
    /\ loader \in {"idle", "check"}
    /\ data_queue = <<>>
    /\ loader' = "wait"
    /\ waits' = waits + 1
    /\ UNCHANGED <<feed, brokerTime, data_queue, last_tick_time,
                   last_bar_time, stop_event, data_ready, thread,
                   placed, evicted>>
    /\ UNCHANGED <<lifecycle, delivered, dropped>>
    /\ UNCHANGED svars

\* _load: the wait returns True
LoadWake ==
    /\ loader = "wait"
    /\ data_ready
    /\ loader' = "clear"
    /\ UNCHANGED <<feed, brokerTime, data_queue, last_tick_time,
                   last_bar_time, stop_event, data_ready, thread,
                   placed, evicted>>
    /\ UNCHANGED <<lifecycle, deliveries>>
    /\ UNCHANGED svars

\* _load: the wait times out, return None
LoadTimeout ==
    /\ loader = "wait"
    /\ ~data_ready
    /\ loader' = "idle"
    /\ waits' = 0
    /\ UNCHANGED <<feed, brokerTime, data_queue, last_tick_time,
                   last_bar_time, stop_event, data_ready, thread,
                   placed, evicted>>
    /\ UNCHANGED <<lifecycle, delivered, dropped>>
    /\ UNCHANGED svars

\* _load, had it gone back into itself without clearing _data_ready
LoadNoClear ==
    /\ loader = "clear"
    /\ loader' = "check"
    /\ UNCHANGED <<feed, brokerTime, data_queue, last_tick_time,
                   last_bar_time, stop_event, data_ready, thread, placed,
                   evicted>>
    /\ UNCHANGED <<lifecycle, deliveries>>
    /\ UNCHANGED svars

\* _load: self._data_ready.clear(); return self._load()
LoadClear ==
    /\ loader = "clear"
    /\ data_ready' = FALSE
    /\ loader' = "check"
    /\ UNCHANGED <<feed, brokerTime, data_queue, last_tick_time,
                   last_bar_time, stop_event, thread, placed,
                   evicted>>
    /\ UNCHANGED <<lifecycle, deliveries>>
    /\ UNCHANGED svars

\* the broker receives a tick
BrokerTick ==
    /\ brokerTime < LastTime
    /\ brokerTime' = brokerTime + TimeStep
    /\ UNCHANGED <<feed, data_queue, last_tick_time, last_bar_time,
                   stop_event, data_ready, thread, loader, placed,
                   evicted>>
    /\ UNCHANGED <<lifecycle, deliveries>>
    /\ UNCHANGED svars

(***************************************************************************)
(* LiveTradingStrategy                                                     *)
(***************************************************************************)
\* self.p.fast and self.p.atr_period: below self.p.slow, or above it
Periods == {1, MaxPeriod}

Init ==
    /\ p \in [max_positions : 1..MaxPositionsParam, fast : Periods,
               atr_period : Periods]
    /\ position_count = 0
    /\ last_signal_minute = NoMinute
    /\ dataTime = 0
    /\ bars = 0
    /\ running = TRUE
    /\ brokerPositions = <<>>
    /\ orders = <<>>
    /\ cycle = NoCycle
    /\ acted = 0
    /\ FeedConstructed([tick_mode |-> TRUE, history |-> 0])

\* backtrader's minimum period, had SMA(slow) been the only indicator
MinPeriodSlowOnly == slow

\* backtrader's minimum period of the strategy, the largest one of its
\* indicators: SMA(fast) needs fast bars, SMA(slow) slow bars, CrossOver of
\* the two one bar more than both, ATR(atr_period) atr_period + 1 bars
MinPeriod == Max(Max(p.fast, slow), p.atr_period) + 1

\* The feed hands the next bar to the strategy: timestamps never go back
\* (see FeedSpec), len(self.data) and len(self.sma_slow) grow by one.
Deliver(t) ==
    /\ running
    /\ t \in Times
    /\ t >= dataTime
    /\ dataTime' = t
    /\ bars' = Min(bars + 1, Max(MinPeriod, slow))
    /\ UNCHANGED fvars

\* backtrader calls prenext(), not next(), while a bar is still missing for
\* one of the indicators
Prenext == bars' < MinPeriod

\* the guards of next() that lead to the signal test
DebouncedNever(t) == FALSE

\* if minute == self.last_signal_minute: return
Debounced(t) == Minute(t) = last_signal_minute

\* if len(self.sma_slow) < self.p.slow: return
IndicatorsReady == ~(bars' < slow)

OpenSignal(crossover) ==
    crossover > 0 /\ position_count < p.max_positions

\* the elif, had it read "self.crossover <= 0"
CloseSignalOnFlat(crossover) == ~OpenSignal(crossover) /\ crossover <= 0

\* elif self.crossover < 0
CloseSignal(crossover) == ~OpenSignal(crossover) /\ crossover < 0

\* the count of acting cycles of the bucket of t, after a cycle at t that
\* acted (n = 1) or did not (n = 0); capped at 2
Acted(t, n) ==
    Min((IF Minute(t) = Minute(dataTime) THEN acted ELSE 0) + n, 2)

\* next(): if minute == self.last_signal_minute: return
NextDebounced ==
    \E t \in Times :
        /\ Deliver(t)
        /\ ~Prenext
        /\ Debounced(t)
        /\ orders' = <<>>
        /\ cycle' = [NoCycle EXCEPT !.kind = "debounced", !.minute = Minute(t),
                                    !.count_before = position_count]
        /\ acted' = Acted(t, 0)
        /\ UNCHANGED <<p, position_count, last_signal_minute, running,
                       brokerPositions>>

\* a bar of the warm-up: backtrader does not call next(), or next() returns
\* at "if len(self.sma_slow) < self.p.slow: return"
NextNotReady ==
    \E t \in Times :
        /\ Deliver(t)
        /\ Prenext \/ (~Debounced(t) /\ ~IndicatorsReady)
        /\ orders' = <<>>
        /\ cycle' = [NoCycle EXCEPT !.kind = "not_ready", !.minute = Minute(t),
                                    !.count_before = position_count]
        /\ acted' = Acted(t, 0)
        /\ UNCHANGED <<p, position_count, last_signal_minute, running,
                       brokerPositions>>

\* next(): info = mt5.account_info(); if not info: return
NextNoAccount ==
    \E t \in Times :
        /\ Deliver(t)
        /\ ~Prenext
        /\ ~Debounced(t)
        /\ IndicatorsReady
        /\ orders' = <<>>
        /\ cycle' = [NoCycle EXCEPT !.kind = "no_account", !.minute = Minute(t),
                                    !.count_before = position_count]
        /\ acted' = Acted(t, 0)
        /\ UNCHANGED <<p, position_count, last_signal_minute, running,
                       brokerPositions>>

\* next(): neither branch of the signal test is taken
NextNoSignal ==
    \E t \in Times, crossover \in Crossovers :
        /\ Deliver(t)
        /\ ~Prenext
        /\ ~Debounced(t)
        /\ IndicatorsReady
        /\ ~OpenSignal(crossover)
        /\ ~CloseSignal(crossover)
        /\ orders' = <<>>
        /\ cycle' = [NoCycle EXCEPT !.kind = "no_signal", !.minute = Minute(t),
                                    !.crossover = crossover,
                                    !.count_before = position_count]
        /\ acted' = Acted(t, 0)
        /\ UNCHANGED <<p, position_count, last_signal_minute, running,
                       brokerPositions>>

\* the broker fills no order whose volume breaks the symbol's own limits
BrokerAccepts(lot, sym) ==
    /\ sym.volume_min <= lot
    /\ lot <= sym.volume_max
    /\ lot % sym.volume_step = 0

\* _open_long, had it counted every result that came back
CountAfterOpenAnyResult(count, out) ==
    IF ReturnsNone(out) THEN count ELSE count + 1

\* if res.retcode == mt5.TRADE_RETCODE_DONE: self.position_count += 1
CountAfterOpen(count, out) == IF out = "done" THEN count + 1 ELSE count

\* _open_long from the try block on, with every broker call answering;
\* a None result makes res.retcode raise, which the except clause catches
OpenLongOrder(t, crossover, atr, balance, sym, margin, free, out) ==
    \E lot \in Lots(balance, atr.v, sym, margin, free) :
        LET sl_pts == SlPts(atr.v, sym)
            tp_pts == TpPts(sl_pts)
        IN  /\ out = "done" => /\ Len(brokerPositions) < MaxBrokerPositions
                               /\ BrokerAccepts(lot, sym)
            /\ orders' = _send_order(<<>>, lot, ORDER_TYPE_BUY, sl_pts, tp_pts,
                                     out)
            /\ position_count' = CountAfterOpen(position_count, out)
            /\ brokerPositions' =
                   IF out = "done"
                   THEN Append(brokerPositions,
                               [type |-> POSITION_TYPE_BUY, volume |-> lot])
                   ELSE brokerPositions
            /\ cycle' = [NoCycle EXCEPT !.kind = "open", !.minute = Minute(t),
                                        !.crossover = crossover,
                                        !.count_before = position_count,
                                        !.atr = atr, !.sym = sym,
                                        !.margin = margin, !.free = free,
                                        !.outs = <<out>>,
                                        !.left = Len(brokerPositions')]

\* _open_long returns before any order: invalid ATR, or a broker call of the
\* sizing stage fails (RuntimeError / TypeError / AttributeError caught, or
\* the early return on a missing tick)
OpenLongAbort(t, crossover, atr, fail) ==
    /\ orders' = <<>>
    /\ cycle' = [NoCycle EXCEPT !.kind = "open", !.minute = Minute(t),
                                !.crossover = crossover,
                                !.count_before = position_count,
                                !.atr = atr, !.fail = fail]
    /\ UNCHANGED <<position_count, brokerPositions>>

\* the test on self.atr[0], had it left out math.isfinite
AtrValidNoFiniteTest(atr) == ~(atr.v <= 0)

\* if not math.isfinite(self.atr[0]) or self.atr[0] <= 0: return
AtrValid(atr) == atr.fin /\ ~(atr.v <= 0)

\* next(): golden cross -> self._open_long(...); last_signal_minute = minute
NextOpenLong ==
    \E t \in Times, crossover \in Crossovers :
        /\ Deliver(t)
        /\ ~Prenext
        /\ ~Debounced(t)
        /\ IndicatorsReady
        /\ OpenSignal(crossover)
        /\ \E atr \in Atrs :
             IF ~AtrValid(atr)
             THEN OpenLongAbort(t, crossover, atr, "ok")
             ELSE \E fail \in OpenFails :
                     IF fail # "ok"
                     THEN OpenLongAbort(t, crossover, atr, fail)
                     ELSE \E balance \in Balances, sym \in SymInfos,
                             margin \in Margins, free \in Frees,
                             out \in SendOutcomes :
                             OpenLongOrder(t, crossover, atr, balance, sym,
                                           margin, free, out)
        /\ last_signal_minute' = Minute(t)
        /\ acted' = Acted(t, 1)
        /\ UNCHANGED <<p, running>>

\* what mt5.positions_get returns: the open positions, or None on an error
PositionsGet == {brokerPositions, <<>>}

\* next(): death cross -> self._close_all(...); last_signal_minute = minute,
\* unless _close_all raised
NextCloseAll ==
    \E t \in Times, crossover \in Crossovers :
        /\ Deliver(t)
        /\ ~Prenext
        /\ ~Debounced(t)
        /\ IndicatorsReady
        /\ CloseSignal(crossover)
        /\ \E pos \in PositionsGet :
            \E outs \in [1..Len(pos) -> SendOutcomes] :
              LET st == _close_all(position_count, pos, outs)
              IN  /\ position_count' = st.count
                  /\ orders' = st.orders
                  /\ brokerPositions' =
                         IF pos = <<>> THEN brokerPositions ELSE st.left
                  /\ running' = ~st.raised
                  /\ last_signal_minute' =
                         IF st.raised THEN last_signal_minute ELSE Minute(t)
                  /\ cycle' = [NoCycle EXCEPT
                                  !.kind = "close", !.minute = Minute(t),
                                  !.crossover = crossover,
                                  !.count_before = position_count,
                                  !.reported = pos,
                                  !.outs = Attempted(outs),
                                  !.left = Len(brokerPositions'),
                                  !.raised = st.raised]
        /\ acted' = Acted(t, 1)
        /\ UNCHANGED <<p>>

(***************************************************************************)
(* The broker, between two decision cycles                                 *)
(***************************************************************************)
RemoveAt(s, i) == SubSeq(s, 1, i - 1) \o SubSeq(s, i + 1, Len(s))

\* a position is closed on the broker's side (stop-loss / take-profit hit)
BrokerClosesPosition ==
    \E i \in 1..Len(brokerPositions) :
        /\ running
        /\ brokerPositions' = RemoveAt(brokerPositions, i)
        /\ UNCHANGED <<p, position_count, last_signal_minute, dataTime, bars,
                       running, orders, cycle, acted>>
        /\ UNCHANGED fvars

\* a position on the symbol that this process did not open (another
\* terminal, or this strategy before a restart)
BrokerOpensPosition ==
    \E pos \in Positions :
        /\ running
        /\ Len(brokerPositions) < MaxBrokerPositions
        /\ brokerPositions' = Append(brokerPositions, pos)
        /\ UNCHANGED <<p, position_count, last_signal_minute, dataTime, bars,
                       running, orders, cycle, acted>>
        /\ UNCHANGED fvars

Next ==
    \/ NextDebounced
    \/ NextNotReady
    \/ NextNoAccount
    \/ NextNoSignal
    \/ NextOpenLong
    \/ NextCloseAll
    \/ BrokerClosesPosition
    \/ BrokerOpensPosition

Spec == Init /\ [][Next]_vars

(***************************************************************************)
(* The feed on its own: polling thread, consumer and broker clock          *)
(***************************************************************************)
StrategyConstructed ==
    /\ p = [max_positions |-> 1, fast |-> 1, atr_period |-> 1]
    /\ position_count = 0
    /\ last_signal_minute = NoMinute
    /\ dataTime = 0
    /\ bars = 0
    /\ running = TRUE
    /\ brokerPositions = <<>>
    /\ orders = <<>>
    /\ cycle = NoCycle
    /\ acted = 0

FeedInit ==
    /\ \E cfg \in [tick_mode : BOOLEAN, history : {0, QueueCap, MaxHist}] :
           FeedConstructed(cfg)
    /\ StrategyConstructed

FeedNext ==
    \/ Start
    \/ Stop
    \/ StopReturn
    \/ ThreadLoop
    \/ FetchTickMiss
    \/ FetchTickNew
    \/ FetchBarMiss
    \/ FetchBarRaise
    \/ FetchBarNew
    \/ ThreadSetReady
    \/ ThreadSleep
    \/ LoadPop
    \/ LoadEmpty
    \/ LoadWake
    \/ LoadTimeout
    \/ LoadClear
    \/ BrokerTick

FeedSpec == FeedInit /\ [][FeedNext]_vars

\* the steps of the polling thread
ThreadStep ==
    \/ ThreadLoop
    \/ FetchTickMiss
    \/ FetchTickNew
    \/ FetchBarMiss
    \/ FetchBarRaise
    \/ FetchBarNew
    \/ ThreadSetReady
    \/ ThreadSleep

\* the steps of the consumer, which calls _load again and again
LoadStep ==
    \/ LoadPop
    \/ LoadEmpty
    \/ LoadWake
    \/ LoadTimeout
    \/ LoadClear

\* FeedSpec with the scheduling the code relies on: a started thread keeps
\* running (time.sleep and the broker calls return), join(timeout=5) returns,
\* and the consumer's wait(timeout=1.0) returns and _load is called again
FeedLiveSpec ==
    /\ FeedSpec
    /\ WF_vars(ThreadStep)
    /\ WF_vars(StopReturn)
    /\ WF_vars(LoadStep)


(***************************************************************************)
(* Claims about LiveTradingStrategy                                        *)
(***************************************************************************)
OpenCycle == cycle.kind = "open"

CloseCycle == cycle.kind = "close"

DoneCount(outs) == Cardinality({i \in 1..Len(outs) : outs[i] = "done"})

\* C1: in every reachable state 0 <= position_count <= max_positions,
\* whatever the broker answered and whatever positions it reported.
C1_PositionCountBounded ==
    position_count >= 0 /\ position_count <= p.max_positions

\* a CloseAll whose order was done while the counter was already 0
C1_Witness ==
    /\ CloseCycle
    /\ cycle.count_before = 0
    /\ DoneCount(cycle.outs) > 0
    /\ position_count = 0

\* C2: a decision cycle in which a broker call fails (OpenLong path or
\* CloseAll path) lets no exception out of next(): the loop keeps running.
BrokerCallFailed ==
    \/ cycle.fail # "ok"
    \/ \E i \in 1..Len(cycle.outs) : ReturnsNone(cycle.outs[i])

C2_FailuresContained == BrokerCallFailed => running

\* C3: of the decision cycles of one minute bucket at most one acts on a
\* signal; a cycle in a bucket already acted on sends no order and leaves
\* position_count as it was.
C3_OneActPerBucket ==
    /\ acted <= 1
    /\ cycle.kind = "debounced" =>
           orders = <<>> /\ position_count = cycle.count_before

\* a cycle was turned away because its bucket had been acted on
C3_Witness ==
    /\ cycle.kind = "debounced"
    /\ acted = 1
    /\ position_count = 1

\* C4: every volume _open_long hands to an order request lies in
\* [volume_min, volume_max] of the symbol.
C4_VolumeWithinLimits ==
    OpenCycle =>
        \A i \in 1..Len(orders) :
            /\ cycle.sym.volume_min <= orders[i].volume
            /\ orders[i].volume <= cycle.sym.volume_max

\* C5: every volume _open_long hands to an order request is an integer
\* multiple of volume_step.
C5_VolumeMultipleOfStep ==
    OpenCycle =>
        \A i \in 1..Len(orders) :
            orders[i].volume % cycle.sym.volume_step = 0

\* C6: after a CloseAll cycle that leaves the broker without an open position
\* on the symbol, position_count is 0, whatever it was before.
C6_CloseAllReconciles ==
    (CloseCycle /\ ~cycle.raised /\ cycle.left = 0) => position_count = 0

\* C7: in a CloseAll cycle every reported position gets exactly one order, of
\* the opposite side and of the position's volume, and position_count goes
\* down by one for each order that came back done and for no other.
C7_CloseAllOrders ==
    CloseCycle =>
        /\ Len(orders) = Len(cycle.reported)
        /\ \A i \in 1..Len(orders) :
               /\ orders[i].volume = cycle.reported[i].volume
               /\ orders[i].type =
                      (IF cycle.reported[i].type = POSITION_TYPE_BUY
                       THEN ORDER_TYPE_SELL ELSE ORDER_TYPE_BUY)
        /\ position_count = cycle.count_before - DoneCount(cycle.outs)


(***************************************************************************)
(* Claims about MT5LiveDataFeed (specification FeedSpec)                   *)
(***************************************************************************)
\* What Deliver assumes of the feed: the timestamps handed to the strategy
\* never go back (an invariant of FeedSpec).
FeedTimestampsNeverGoBack ==
    \A i, j \in 1..Len(placed) : i < j => placed[i] <= placed[j]

\* C8: the buffer never holds more than its capacity, through preload,
\* producer appends and consumer pops; an append to a full buffer goes
\* through, drops exactly the oldest item and admits the new one.
C8_BufferBounded ==
    /\ [](Len(data_queue) <= QueueCap)
    /\ [][(Len(placed') > Len(placed) /\ Len(data_queue) = QueueCap) =>
              data_queue' = Append(Tail(data_queue), placed'[Len(placed')])]_vars

\* the polling thread has appended to a buffer that the preload left
\* exactly full
C8_Witness ==
    /\ feed.history = QueueCap
    /\ evicted
    /\ thread = "set"
    /\ Len(data_queue) = QueueCap

\* C9: every item the poll loop appends is strictly newer than every item
\* placed in the buffer before it, the preloaded history included.
C9_MonotonicDedup ==
    \A i, j \in 1..Len(placed) :
        (i < j /\ j > feed.history) => placed[i] < placed[j]

\* C10: the polling thread ends only once stop() has been requested, and a
\* poll iteration that appends nothing leaves the buffer and the last
\* accepted timestamps alone and goes to sleep.
C10_PollingSurvivesMisses ==
    /\ [](thread \in {"exited", "died"} => stop_event)
    /\ [][(thread = "fetch" /\ thread' \notin {"fetch", "set"}) =>
              /\ thread' = "sleep"
              /\ UNCHANGED <<data_queue, last_tick_time, last_bar_time>>]_vars

\* a call of start() returns in this step
StartReturns == start_tick' # start_tick

\* C11: when start() returns, a polling thread is running and its
\* cancellation flag is clear, whatever calls of start() and stop() came
\* before (self._thread is the only thread start() ever looks at, so two
\* polling threads never run at once)
C11_StartLeavesPollingRunning ==
    [][StartReturns => (ThreadAlive' /\ ~stop_event')]_vars

\* C12: once stop() has set the flag the polling thread ends: the flag stays
\* set while the thread is alive and the loop test then leaves the loop, so
\* the thread finishes at most the iteration it is in (one fetch, one append);
\* stop() returns from its bounded join, and neither setting the flag nor
\* returning touches the thread
C12_CooperativeShutdown ==
    /\ (stop_event /\ ThreadAlive) ~> ~ThreadAlive
    /\ (caller = "join") ~> (caller = "idle")
    /\ [][(stop_event /\ ThreadAlive) => stop_event']_vars
    /\ [][(stop_event /\ thread = "loop" /\ thread' # thread)
            => thread' = "exited"]_vars
    /\ [][caller' # caller => thread' = thread]_vars

\* a thread that has polled and appended has ended on the flag, stop() has
\* returned
C12_Witness ==
    /\ thread = "exited"
    /\ stop_event
    /\ caller = "idle"
    /\ last_tick_time > 0

\* C13: _load always returns, and never with "end of data" (its returns are
\* LoadPop, True, and LoadTimeout, None): an item it returns is the oldest
\* one of the buffer, it waits only on an empty buffer and returns None only
\* from a wait that timed out.  A call waits at most three times: a wait
\* that returns at once needs a _data_ready.set() whose item an earlier call
\* has already taken, and there are at most two of those (one done, one the
\* thread is about to do)
C13_LoadReturns ==
    /\ (loader # "idle") ~> (loader = "idle")
    /\ [](waits <= 3)
    /\ [][delivered' # delivered
            => /\ data_queue # <<>>
               /\ delivered' = Append(delivered, OldestIndex)
               /\ data_queue' = Tail(data_queue)]_vars
    /\ [][(loader # "wait" /\ loader' = "wait") => data_queue = <<>>]_vars
    /\ [][(loader = "wait" /\ loader' = "idle")
            => ~data_ready /\ UNCHANGED <<data_queue, delivered>>]_vars

\* _load is about to return an item that arrived while it was waiting
C13_Witness ==
    /\ loader = "check"
    /\ waits >= 1
    /\ data_queue # <<>>

\* the largest of the three periods
LargestPeriod == Max(Max(p.fast, slow), p.atr_period)

\* C14: a cycle that acts on a signal, or sends an order, has received at
\* least as many bars as the largest of fastPeriod, slowPeriod and atrPeriod,
\* whatever the three periods are
C14_NoActionBeforeIndicatorsReady ==
    (OpenCycle \/ CloseCycle \/ orders # <<>>) => bars >= LargestPeriod

\* an order goes out with a fast period above the slow one, where the test
\* on len(self.sma_slow) alone would not have waited long enough
C14_Witness ==
    /\ OpenCycle
    /\ orders # <<>>
    /\ p.fast > slow
    /\ bars >= LargestPeriod

\* C15: an OpenLong whose ATR is not finite or not above zero builds and
\* submits no order and leaves position_count as it was
C15_InvalidAtrAborts ==
    (OpenCycle /\ (~cycle.atr.fin \/ cycle.atr.v <= 0))
        => /\ orders = <<>>
           /\ cycle.outs = <<>>
           /\ position_count = cycle.count_before

\* an OpenLong with a nan / inf ATR has ended
C15_Witness == OpenCycle /\ ~cycle.atr.fin /\ orders = <<>>

\* C16: the bucket of a cycle that acts is recorded before the execution is
\* attempted, so that last_signal_minute is that bucket once the cycle is
\* over, however the execution ended
C16_BucketRecordedBeforeExecution ==
    (OpenCycle \/ CloseCycle) => last_signal_minute = cycle.minute

\* the positions an item can have in placed
ItemIndexes == 1..(MaxHist + MaxPolls + 1)

\* the positions in placed of what _load has returned
Delivered == {delivered[k] : k \in DOMAIN delivered}

\* the positions in placed of what the buffer holds
Buffered == OldestIndex..Len(placed)

\* C17: short of overflow nothing is lost and nothing is reordered: _load
\* returns items in the order of their appends, each at most once; an
\* appended item is in the buffer, returned, or dropped by a full buffer;
\* and with the consumer calling _load again and again every appended item
\* is in the end returned, unless a full buffer dropped it
C17_LosslessOrderedDelivery ==
    /\ [](\A i, j \in DOMAIN delivered :
             i < j => delivered[i] < delivered[j])
    /\ [](/\ Delivered \cup dropped \cup Buffered = 1..Len(placed)
          /\ Delivered \cap dropped = {}
          /\ Delivered \cap Buffered = {}
          /\ data_queue = SubSeq(placed, OldestIndex, Len(placed)))
    /\ \A i \in ItemIndexes :
          (i <= Len(placed)) ~> (i \in Delivered \/ i \in dropped)

\* two polled items have been returned and nothing is left in the buffer
C17_Witness ==
    /\ Len(delivered) >= 2
    /\ data_queue = <<>>
    /\ last_tick_time > 0
    /\ Len(delivered) + Cardinality(dropped) = Len(placed)

\* a cycle that got as far as the signal test: indicators ready, account
\* state fetched, bucket not acted on yet
SignalCycle == cycle.kind \in {"open", "close", "no_signal"}

\* C18: in a cycle that reaches the signal test, a crossover above zero with
\* position_count below max_positions gives OpenLong and nothing else, a
\* crossover below zero gives CloseAll and nothing else, and a crossover
\* above zero at max_positions, or a crossover of zero, gives nothing: no
\* order, position_count as it was, and the bucket not recorded
C18_SignalPolicy ==
    SignalCycle =>
        /\ OpenCycle <=> (/\ cycle.crossover > 0
                          /\ cycle.count_before < p.max_positions)
        /\ CloseCycle <=> cycle.crossover < 0
        /\ OpenCycle =>
              /\ Len(orders) <= 1
              /\ \A i \in DOMAIN orders : orders[i].type = ORDER_TYPE_BUY
              /\ position_count >= cycle.count_before
        /\ CloseCycle =>
              /\ Len(orders) <= Len(cycle.reported)
              /\ position_count <= cycle.count_before
        /\ cycle.kind = "no_signal" =>
              /\ orders = <<>>
              /\ position_count = cycle.count_before
              /\ last_signal_minute # cycle.minute

\* a golden cross at max_positions was let pass
C18_Witness ==
    /\ cycle.kind = "no_signal"
    /\ cycle.crossover > 0
    /\ position_count = p.max_positions

\* every order of the cycle that came back, came back with a result code
\* other than done
AllRejected ==
    /\ cycle.outs # <<>>
    /\ \A i \in DOMAIN cycle.outs : cycle.outs[i] = "rejected"

\* a bar of a later bucket can still come
LaterBucketLeft == \E t \in Times : Minute(t) > Minute(dataTime)

\* C19: only a done result counts.  After a cycle whose orders all came
\* back with another result code position_count is what it was, every order
\* was sent once, and the loop is alive with that bucket recorded, so that a
\* signal of a later bucket is acted on again
C19_OnlyDoneCounts ==
    ((OpenCycle \/ CloseCycle) /\ AllRejected) =>
        /\ position_count = cycle.count_before
        /\ Len(orders) = Len(cycle.outs)
        /\ OpenCycle => Len(orders) = 1
        /\ CloseCycle => Len(orders) = Len(cycle.reported)
        /\ running
        /\ last_signal_minute = cycle.minute
        /\ (OpenCycle /\ LaterBucketLeft) => ENABLED NextOpenLong
        /\ (CloseCycle /\ LaterBucketLeft) => ENABLED NextCloseAll

\* a rejected opening order, with a later bucket still to come
C19_Witness ==
    /\ OpenCycle
    /\ AllRejected
    /\ LaterBucketLeft

\* the cycle could not fetch the account state (in next() or for the margin
\* cap) or the symbol's constraints (for the sizing or for the request)
InfoUnavailable ==
    \/ cycle.kind = "no_account"
    \/ OpenCycle /\ cycle.fail \in {"no_sym_info", "no_account"}
    \/ /\ OpenCycle \/ CloseCycle
       /\ \E i \in DOMAIN cycle.outs : cycle.outs[i] = "no_info"

\* C20: a cycle that cannot fetch the account state or the symbol's
\* constraints is given up: no order is submitted, position_count is what it
\* was, and the decision loop goes on
C20_UnavailableInfoAbortsCycle ==
    InfoUnavailable =>
        /\ orders = <<>>
        /\ position_count = cycle.count_before
        /\ running

\* C21: an opening order needs no more margin than is free: with a per-lot
\* margin above zero, the volume submitted times the per-lot margin is at
\* most margin_free, also when margin_free / margin_per_lot is below
\* volume_min (volumes are counted in 1/LotScale lot)
C21_MarginRespected ==
    (OpenCycle /\ orders # <<>> /\ cycle.margin > 0)
        => \A i \in DOMAIN orders :
               orders[i].volume * cycle.margin <= cycle.free * LotScale

\* n / d rounded to the nearest integer; a tie may go either way
RoundNearest(n, d) ==
    LET q == n \div d
        r == n % d
    IN  IF 2 * r < d THEN {q}
        ELSE IF 2 * r > d THEN {q + 1}
        ELSE {q, q + 1}

\* C22: the stop of an opening order is, in points, the larger of the stop
\* distance over the point size rounded to the nearest integer and the
\* broker's stops level plus the safety buffer; the take profit is the stop
\* times take_profit_mult; and the stop is at least stops level plus buffer,
\* which is above zero
C22_StopPoints ==
    (OpenCycle /\ orders # <<>>) =>
        \A i \in DOMAIN orders :
            LET floor == cycle.sym.trade_stops_level + StopsBuffer
            IN  /\ \E r \in RoundNearest(StopDist(cycle.atr.v),
                                         cycle.sym.point) :
                      orders[i].sl = Max(r, floor)
                /\ orders[i].tp = orders[i].sl * take_profit_mult
                /\ orders[i].sl >= floor
                /\ floor > 0

====
